---------------------------- MODULE Spec2Model ----------------------------
(***************************************************************************)
(* Model of the caption parsers of webvtt/parsers.py:                      *)
(*   TextBasedParser._parse  (used by SRTParser and SBVParser),            *)
(*   WebVTTParser            (block-structured parser),                    *)
(*   WebVTTParserCDP         (sentence-grouping parser).                   *)
(* A parser instance reads a list of lines, validates it and parses it     *)
(* one line (or one block) per step.                                       *)
(***************************************************************************)
EXTENDS Naturals, Sequences, FiniteSets

VARIABLES
    parser,         \* class of the instance: "srt", "sbv", "vtt" or "cdp"
    pc,             \* "idle" | "loop" | "done" | "failed"
    lines,          \* the content being parsed (argument of _validate/_parse)
    idx,            \* number of lines already consumed by the for loop of TextBasedParser._parse
    c,              \* local c of TextBasedParser._parse: <<>> is None, <<caption>> an open caption
    captions,       \* self.captions
    styles,         \* self.styles (block parsers)
    blocks,         \* self.blocks (block parsers)
    bidx,           \* number of blocks already consumed by the for loop of _parse
    group_captions, \* local group_captions of WebVTTParserCDP._parse
    start_time,     \* local start_time of WebVTTParserCDP._parse
    error,          \* the exception the current call raised, NoError if none
    cAt,            \* history: 1-based number of the timing line that opened c (0 if none)
    origin,         \* history, parallel to captions: timing line number (text parsers)
                    \*          or position in blocks (block parsers) that appended it
    styleOrigin,    \* history, parallel to styles: position in blocks of the style block,
                    \*          0 for a record left over from an earlier parse
    fresh           \* history: TRUE until the instance starts a second parse

vars == <<parser, pc, lines, idx, c, captions, styles, blocks, bidx,
          group_captions, start_time, error, cAt, origin, styleOrigin, fresh>>

-----------------------------------------------------------------------------
(* Bounds of the model *)

\* longest input, in lines, given to a text parser (SRT, SBV)
MaxLen == 6
\* most blocks after the header in an input given to a block parser
MaxBlocks == 3
\* most blocks after the header in an input given to an instance that is reused
MaxReBlocks == 1
\* an instance is reused only while it holds fewer style records than this
MaxStyles == 2

-----------------------------------------------------------------------------
(* The lines the inputs are made of *)

SRT_A == "0:00:01,000 --> 0:00:02,000"
SRT_B == "0:00:03,000 --> 0:00:04,000"
SBV_A == "0:00:01.000,0:00:02.000"
SBV_B == "0:00:03.000,0:00:04.000"
VTT_A == "00:01.000 --> 00:02.000"
VTT_B == "00:03.000 --> 00:04.000"
\* contains the arrow but matches no timing pattern
BAD_T == "1 --> 2"

None == "None"

SRTLines == {"", "1", "Hi", SRT_A, SRT_B, BAD_T}
SBVLines == {"", "1", "Hi", SBV_A, SBV_B}

\* '-->' in line
HasArrow(line) == line \in {SRT_A, SRT_B, VTT_A, VTT_B, BAD_T}

\* re.match(TIMEFRAME_LINE_PATTERN, line) of each class
ValidateTimeframeLine(p, line) ==
    CASE p = "srt" -> line \in {SRT_A, SRT_B}
      [] p = "sbv" -> line \in {SBV_A, SBV_B}
      [] OTHER     -> line \in {VTT_A, VTT_B, SRT_A, SRT_B}

\* tf.group(1), tf.group(2) of a line that matches
TimeStart(line) ==
    CASE line = SRT_A -> "0:00:01,000"
      [] line = SRT_B -> "0:00:03,000"
      [] line = SBV_A -> "0:00:01.000"
      [] line = SBV_B -> "0:00:03.000"
      [] line = VTT_A -> "00:01.000"
      [] line = VTT_B -> "00:03.000"
      [] OTHER        -> None

TimeEnd(line) ==
    CASE line = SRT_A -> "0:00:02,000"
      [] line = SRT_B -> "0:00:04,000"
      [] line = SBV_A -> "0:00:02.000"
      [] line = SBV_B -> "0:00:04.000"
      [] line = VTT_A -> "00:02.000"
      [] line = VTT_B -> "00:04.000"
      [] OTHER        -> None

\* str.isdigit()
IsDigit(line) == line \in {"1", "2"}

-----------------------------------------------------------------------------
(* Caption (webvtt/structures.py) *)

\* Caption(start, end): no identifier, no lines, sentence flag off
Caption(start, end) ==
    [identifier |-> None, start |-> start, end |-> end,
     lines |-> <<>>, flagEndSentence |-> FALSE]

\* Caption.add_line
AddLine(cap, line) == [cap EXCEPT !.lines = Append(@, line)]

NoError == [kind |-> "none", msg |-> "", line |-> 0]
Err(kind, msg, line) == [kind |-> kind, msg |-> msg, line |-> line]

-----------------------------------------------------------------------------
(* TextBasedParser and its grammars SRTParser, SBVParser *)

\* SRTParser._is_timeframe_line / SBVParser._is_timeframe_line
IsTimeframeLine(p, line) ==
    IF p = "srt" THEN HasArrow(line) ELSE ValidateTimeframeLine(p, line)

\* ShouldSkipLine that skips a digit-only line whether or not a caption is open
ShouldSkipLineAnyDigit(p, line, cur) ==
    IF p = "srt" THEN IsDigit(line) ELSE FALSE

\* SRTParser._should_skip_line / TextBasedParser._should_skip_line
ShouldSkipLine(p, line, cur) ==
    IF p = "srt" THEN cur = <<>> /\ IsDigit(line) ELSE FALSE

\* IgnoreEmptyCaptions with the option set for every grammar
IgnoreEmptyCaptionsAlways(p) == TRUE

\* PARSER_OPTIONS.get('ignore_empty_captions', False)
IgnoreEmptyCaptions(p) == p = "srt"

\* SRTParser._validate / SBVParser._validate
ValidateText(p, ls) ==
    IF p = "srt"
    THEN Len(ls) >= 2 /\ ls[1] = "1" /\ ValidateTimeframeLine(p, ls[2])
    ELSE ValidateTimeframeLine(p, ls[1])

TextAlphabet(p) == IF p = "srt" THEN SRTLines ELSE SBVLines

TextInputs(p) == UNION {[1..n -> TextAlphabet(p)] : n \in 0..MaxLen}

Fail(e) ==
    /\ pc' = "failed"
    /\ error' = e

\* read_from_buffer of a text parser: _read_content_lines, _validate, and the
\* first two statements of _parse
ReadText ==
    /\ pc = "idle"
    /\ parser \in {"srt", "sbv"}
    /\ \E ls \in TextInputs(parser) :
        /\ lines' = ls
        /\ IF ls = <<>>
           THEN /\ Fail(Err("MalformedFile", "The file is empty.", 0))
                /\ UNCHANGED <<captions, origin>>
           ELSE IF ~ValidateText(parser, ls)
           THEN /\ Fail(Err("MalformedFile", "The file does not have a valid format", 0))
                /\ UNCHANGED <<captions, origin>>
           ELSE /\ pc' = "loop"
                /\ error' = NoError
                /\ captions' = <<>>
                /\ origin' = <<>>
    /\ idx' = 0
    /\ c' = <<>>
    /\ cAt' = 0
    /\ UNCHANGED <<parser, styles, blocks, bidx, group_captions, start_time,
                   styleOrigin, fresh>>

\* the line is a timing line: a new caption replaces c
OnTimeframeLine(line, lineno) ==
    IF ValidateTimeframeLine(parser, line)
    THEN /\ c' = <<Caption(TimeStart(line), TimeEnd(line))>>
         /\ cAt' = lineno
         /\ idx' = idx + 1
         /\ UNCHANGED <<pc, error, captions, origin>>
    ELSE /\ Fail(Err("MalformedCaption", "Invalid time format", lineno))
         /\ UNCHANGED <<c, cAt, idx, captions, origin>>

\* OnTextLine that passes over a text line that has no open caption
OnTextLineLenient(line, lineno) ==
    IF c = <<>>
    THEN /\ idx' = idx + 1
         /\ UNCHANGED <<pc, error, c, cAt, captions, origin>>
    ELSE /\ c' = <<AddLine(c[1], line)>>
         /\ idx' = idx + 1
         /\ UNCHANGED <<pc, error, cAt, captions, origin>>

\* the line is text
OnTextLine(line, lineno) ==
    IF c = <<>>
    THEN /\ Fail(Err("MalformedCaption", "Caption missing timeframe", lineno))
         /\ UNCHANGED <<c, cAt, idx, captions, origin>>
    ELSE /\ c' = <<AddLine(c[1], line)>>
         /\ idx' = idx + 1
         /\ UNCHANGED <<pc, error, cAt, captions, origin>>

\* OnBlankLine without the test of c.lines: an open caption is appended as it is
OnBlankLineKeepEmpty(lineno) ==
    IF c = <<>>
    THEN /\ idx' = idx + 1
         /\ UNCHANGED <<pc, error, c, cAt, captions, origin>>
    ELSE /\ captions' = Append(captions, c[1])
         /\ origin' = Append(origin, cAt)
         /\ c' = <<>>
         /\ cAt' = 0
         /\ idx' = idx + 1
         /\ UNCHANGED <<pc, error>>

\* the line is blank
OnBlankLine(lineno) ==
    IF c = <<>>
    THEN /\ idx' = idx + 1
         /\ UNCHANGED <<pc, error, c, cAt, captions, origin>>
    ELSE IF c[1].lines = <<>>
    THEN IF IgnoreEmptyCaptions(parser)
         THEN /\ c' = <<>>
              /\ cAt' = 0
              /\ idx' = idx + 1
              /\ UNCHANGED <<pc, error, captions, origin>>
         ELSE /\ Fail(Err("MalformedCaption", "Caption missing text", lineno))
              /\ UNCHANGED <<c, cAt, idx, captions, origin>>
    ELSE /\ captions' = Append(captions, c[1])
         /\ origin' = Append(origin, cAt)
         /\ c' = <<>>
         /\ cAt' = 0
         /\ idx' = idx + 1
         /\ UNCHANGED <<pc, error>>

\* one iteration of the for loop of TextBasedParser._parse
LineStep ==
    /\ pc = "loop"
    /\ parser \in {"srt", "sbv"}
    /\ idx < Len(lines)
    /\ LET line == lines[idx + 1]
           lineno == idx + 1
       IN  IF IsTimeframeLine(parser, line) THEN OnTimeframeLine(line, lineno)
           ELSE IF ShouldSkipLine(parser, line, c)
           THEN /\ idx' = idx + 1
                /\ UNCHANGED <<pc, error, c, cAt, captions, origin>>
           ELSE IF line # "" THEN OnTextLine(line, lineno)
           ELSE OnBlankLine(lineno)
    /\ UNCHANGED <<parser, lines, styles, blocks, bidx, group_captions, start_time,
                   styleOrigin, fresh>>

\* FinishText that refuses a caption still open without text, as a blank line does
FinishTextStrict ==
    /\ pc = "loop"
    /\ parser \in {"srt", "sbv"}
    /\ idx = Len(lines)
    /\ IF c # <<>> /\ c[1].lines = <<>> /\ ~IgnoreEmptyCaptions(parser)
       THEN /\ Fail(Err("MalformedCaption", "Caption missing text", Len(lines)))
            /\ UNCHANGED <<captions, origin>>
       ELSE /\ IF c # <<>> /\ c[1].lines # <<>>
               THEN /\ captions' = Append(captions, c[1])
                    /\ origin' = Append(origin, cAt)
               ELSE UNCHANGED <<captions, origin>>
            /\ pc' = "done"
            /\ UNCHANGED error
    /\ UNCHANGED <<parser, lines, idx, c, cAt, styles, blocks, bidx, group_captions,
                   start_time, styleOrigin, fresh>>

\* FinishText without the test of c.lines: a caption still open is appended
FinishTextAppendOpen ==
    /\ pc = "loop"
    /\ parser \in {"srt", "sbv"}
    /\ idx = Len(lines)
    /\ IF c # <<>>
       THEN /\ captions' = Append(captions, c[1])
            /\ origin' = Append(origin, cAt)
       ELSE UNCHANGED <<captions, origin>>
    /\ pc' = "done"
    /\ UNCHANGED <<parser, lines, idx, c, cAt, styles, blocks, bidx, group_captions,
                   start_time, error, styleOrigin, fresh>>

\* the statements after the loop of TextBasedParser._parse
FinishText ==
    /\ pc = "loop"
    /\ parser \in {"srt", "sbv"}
    /\ idx = Len(lines)
    /\ IF c # <<>> /\ c[1].lines # <<>>
       THEN /\ captions' = Append(captions, c[1])
            /\ origin' = Append(origin, cAt)
       ELSE UNCHANGED <<captions, origin>>
    /\ pc' = "done"
    /\ UNCHANGED <<parser, lines, idx, c, cAt, styles, blocks, bidx, group_captions,
                   start_time, error, styleOrigin, fresh>>

-----------------------------------------------------------------------------
(* WebVTTParser and WebVTTParserCDP: blocks *)

\* re.match('WEBVTT', lines[0])
ValidateBlocks(ls) == ls[1] \in {"WEBVTT"}

\* _is_cue_timings_line
IsCueTimingsLine(line) == HasArrow(line)

\* re.match(COMMENT_PATTERN, line): 'NOTE(?:\s.+|$)'
MatchComment(line) == line \in {"NOTE"}

\* re.match(STYLE_PATTERN, line): 'STYLE[ \t]*$'
MatchStyle(line) == line \in {"STYLE"}

\* _group_by_sentence: re.match('.*[.!?]', line)
GroupBySentence(line) ==
    line \in {"Bye.", "Id?", VTT_A, VTT_B, SRT_A, SRT_B, SBV_A, SBV_B}

\* Block(index)
Block(index) == [line_number |-> index, lines |-> <<>>]

\* ComputeBlocksFrom that leaves a block the number of the blank line before it
RECURSIVE ComputeBlocksFromKeepNumber(_, _, _)
ComputeBlocksFromKeepNumber(ls, index, bs) ==
    IF index > Len(ls) THEN bs
    ELSE IF ls[index] # ""
    THEN LET b1 == IF bs = <<>> THEN <<Block(index)>> ELSE bs
             last == Len(b1)
             b3 == [b1 EXCEPT ![last].lines = Append(@, ls[index])]
         IN  ComputeBlocksFromKeepNumber(ls, index + 1, b3)
    ELSE ComputeBlocksFromKeepNumber(ls, index + 1, Append(bs, Block(index)))

\* the for loop of _compute_blocks, from the line numbered index on
RECURSIVE ComputeBlocksFrom(_, _, _)
ComputeBlocksFrom(ls, index, bs) ==
    IF index > Len(ls) THEN bs
    ELSE IF ls[index] # ""
    THEN LET b1 == IF bs = <<>> THEN <<Block(index)>> ELSE bs
             last == Len(b1)
             b2 == IF b1[last].lines = <<>>
                   THEN [b1 EXCEPT ![last].line_number = index]
                   ELSE b1
             b3 == [b2 EXCEPT ![last].lines = Append(@, ls[index])]
         IN  ComputeBlocksFrom(ls, index + 1, b3)
    ELSE ComputeBlocksFrom(ls, index + 1, Append(bs, Block(index)))

\* DropEmptyAndSignature that keeps the first block
DropEmptyOnly(bs) == SelectSeq(bs, LAMBDA b : b.lines # <<>>)

\* list(filter(lambda x: x.lines, blocks))[1:]
DropEmptyAndSignature(bs) ==
    LET kept == SelectSeq(bs, LAMBDA b : b.lines # <<>>)
    IN  SubSeq(kept, 2, Len(kept))

\* _compute_blocks
ComputeBlocks(ls) == DropEmptyAndSignature(ComputeBlocksFrom(ls, 1, <<>>))

\* IsCueBlock that looks at the first three lines
IsCueBlockFirstThree(block) ==
    \E k \in 1..3 : k <= Len(block.lines) /\ IsCueTimingsLine(block.lines[k])

\* _is_cue_block: any(map(_is_cue_timings_line, block.lines[:2]))
IsCueBlock(block) ==
    \E k \in 1..2 : k <= Len(block.lines) /\ IsCueTimingsLine(block.lines[k])

\* _is_comment_block
IsCommentBlock(block) == MatchComment(block.lines[1])

\* _is_style_block
IsStyleBlock(block) == MatchStyle(block.lines[1])

\* Caption.text (getter): the lines joined by single spaces
RECURSIVE JoinLines(_)
JoinLines(ls) ==
    IF ls = <<>> THEN ""
    ELSE IF Len(ls) = 1 THEN ls[1]
    ELSE ls[1] \o " " \o JoinLines(Tail(ls))

Text(cap) == JoinLines(cap.lines)

\* Caption.text (setter): the caption's lines become the lines of the given text
SetText(cap, v) == [cap EXCEPT !.lines = <<v>>]

\* ParseCueLines that takes a first line without the marker for text
RECURSIVE ParseCueLinesNoIdentifier(_, _, _, _, _)
ParseCueLinesNoIdentifier(p, block, k, cap, timings) ==
    IF k >= Len(block.lines)
    THEN IF timings = <<>>
         THEN [err |-> Err("TypeError", "cue_timings is None", 0), caption |-> cap]
         ELSE [err |-> NoError,
               caption |-> [cap EXCEPT !.start = timings[1], !.end = timings[2]]]
    ELSE LET line == block.lines[k + 1] IN
         IF IsCueTimingsLine(line)
         THEN IF timings = <<>>
              THEN IF ValidateTimeframeLine(p, line)
                   THEN ParseCueLinesNoIdentifier(p, block, k + 1, cap,
                                                  <<TimeStart(line), TimeEnd(line)>>)
                   ELSE [err |-> Err("MalformedCaption", "Invalid time format",
                                     block.line_number + k),
                         caption |-> cap]
              ELSE [err |-> Err("MalformedCaption", "--> found",
                                block.line_number + k),
                    caption |-> cap]
         ELSE ParseCueLinesNoIdentifier(p, block, k + 1,
                  AddLine([cap EXCEPT !.flagEndSentence =
                               @ \/ (p = "cdp" /\ GroupBySentence(line))], line),
                  timings)

\* the for loop of _parse_cue_block from the line at offset k (0-based) on, then
\* the assignment of start and end; timings is <<>> for None
RECURSIVE ParseCueLines(_, _, _, _, _)
ParseCueLines(p, block, k, cap, timings) ==
    IF k >= Len(block.lines)
    THEN IF timings = <<>>
         THEN [err |-> Err("TypeError", "cue_timings is None", 0), caption |-> cap]
         ELSE [err |-> NoError,
               caption |-> [cap EXCEPT !.start = timings[1], !.end = timings[2]]]
    ELSE LET line == block.lines[k + 1] IN
         IF IsCueTimingsLine(line)
         THEN IF timings = <<>>
              THEN IF ValidateTimeframeLine(p, line)
                   THEN ParseCueLines(p, block, k + 1, cap,
                                      <<TimeStart(line), TimeEnd(line)>>)
                   ELSE [err |-> Err("MalformedCaption", "Invalid time format",
                                     block.line_number + k),
                         caption |-> cap]
              ELSE [err |-> Err("MalformedCaption", "--> found",
                                block.line_number + k),
                    caption |-> cap]
         ELSE IF k = 0
         THEN ParseCueLines(p, block, k + 1, [cap EXCEPT !.identifier = line], timings)
         ELSE ParseCueLines(p, block, k + 1,
                  AddLine([cap EXCEPT !.flagEndSentence =
                               @ \/ (p = "cdp" /\ GroupBySentence(line))], line),
                  timings)

\* ParseCueBlock that reports a second marker line at the line the block starts
ParseCueBlockAtBlockStart(p, block) ==
    LET r == ParseCueLines(p, block, 0, Caption(None, None), <<>>)
    IN  IF r.err.msg = "--> found"
        THEN [r EXCEPT !.err = Err("MalformedCaption", "--> found", block.line_number)]
        ELSE r

\* _parse_cue_block
ParseCueBlock(p, block) == ParseCueLines(p, block, 0, Caption(None, None), <<>>)

-----------------------------------------------------------------------------
(* The inputs given to the block parsers: a header, then blocks each after a
   blank line, then possibly a trailing blank line *)

BlockVocab ==
    { <<VTT_A>>,
      <<VTT_A, "Hi">>,
      <<VTT_B, "Bye.", "Hi">>,
      <<"Id?", VTT_A, "Hi">>,
      <<"NOTE">>,
      <<"NOTE", VTT_A, "Hi">>,
      <<"STYLE", "Hi">>,
      <<"STYLE", VTT_B>>,
      <<"Hi">>,
      <<"Hi", "Hi", VTT_A>>,
      <<VTT_A, "Hi", VTT_B>>,
      <<VTT_A, VTT_B>>,
      <<BAD_T, "Hi">> }

\* the blocks an input has before its last block: those a parser can pass, and
\* one it cannot
LeadVocab ==
    { <<VTT_A>>,
      <<VTT_A, "Hi">>,
      <<VTT_B, "Bye.", "Hi">>,
      <<"Id?", VTT_A, "Hi">>,
      <<"NOTE">>,
      <<"NOTE", VTT_A, "Hi">>,
      <<"STYLE", "Hi">>,
      <<"STYLE", VTT_B>>,
      <<"Hi">> }

\* <<header, trailer>>
Frames ==
    { << <<"WEBVTT">>, <<>> >>,
      << <<"WEBVTT", "">>, <<"">> >>,
      << <<"WEBVTT", VTT_A, "Bye.">>, <<>> >> }

\* inputs without the signature
UnsignedInputs == { <<>>, <<"Hi">>, <<"", "WEBVTT">>, <<VTT_A, "Hi">> }

ReFrames == { << <<"WEBVTT">>, <<>> >> }

\* the blocks of the inputs given to an instance that is reused
ReVocab == { <<VTT_B, "Bye.">>, <<"STYLE", "Hi">>, <<"NOTE">> }

RECURSIVE JoinBlocks(_)
JoinBlocks(bs) ==
    IF bs = <<>> THEN <<>> ELSE <<"">> \o Head(bs) \o JoinBlocks(Tail(bs))

\* the inputs of at most n blocks, the last block from vocab and the blocks
\* before it from lead
BlockInputs(frames, lead, vocab, n) ==
    { f[1] \o JoinBlocks(bs) \o f[2] :
        f \in frames,
        bs \in {<<>>} \cup UNION {{Append(h, b) : h \in [1..(k - 1) -> lead], b \in vocab} :
                                   k \in 1..n} }

FirstInputs == BlockInputs(Frames, LeadVocab, BlockVocab, MaxBlocks) \cup UnsignedInputs

AgainInputs == BlockInputs(ReFrames, ReVocab, ReVocab, MaxReBlocks)

-----------------------------------------------------------------------------
(* WebVTTParser and WebVTTParserCDP: read and _parse *)

\* read_from_buffer of a block parser: _read_content_lines, _validate, and the
\* statements of _parse before its loop.  self.styles is set in __init__ only.
ReadBlocks ==
    /\ parser \in {"vtt", "cdp"}
    /\ \/ pc = "idle"
       \/ pc \in {"done", "failed"} /\ Len(styles) < MaxStyles
    /\ \E ls \in (IF pc = "idle" THEN FirstInputs ELSE AgainInputs) :
        /\ lines' = ls
        /\ IF ls = <<>>
           THEN /\ Fail(Err("MalformedFile", "The file is empty.", 0))
                /\ UNCHANGED <<captions, origin, blocks>>
           ELSE IF ~ValidateBlocks(ls)
           THEN /\ Fail(Err("MalformedFile", "The file does not have a valid format", 0))
                /\ UNCHANGED <<captions, origin, blocks>>
           ELSE /\ pc' = "loop"
                /\ error' = NoError
                /\ captions' = <<>>
                /\ origin' = <<>>
                /\ blocks' = ComputeBlocks(ls)
    /\ bidx' = 0
    /\ group_captions' = ""
    /\ start_time' = "00:00:00.000"
    /\ styleOrigin' = [i \in 1..Len(styles) |-> 0]
    /\ fresh' = (pc = "idle")
    /\ UNCHANGED <<parser, idx, c, cAt, styles>>

\* the comment branch of the loop of _parse
OnCommentBlock ==
    /\ bidx' = bidx + 1
    /\ UNCHANGED <<pc, error, captions, origin, styles, styleOrigin,
                   group_captions, start_time>>

\* OnStyleBlock that rejects a style block only right after the first caption
OnStyleBlockAfterOneCaption(block) ==
    IF Len(captions) = 1
    THEN /\ Fail(Err("MalformedFile", "Style block defined after the first cue",
                     block.line_number))
         /\ UNCHANGED <<bidx, captions, origin, styles, styleOrigin,
                        group_captions, start_time>>
    ELSE /\ styles' = Append(styles, [lines |-> Tail(block.lines)])
         /\ styleOrigin' = Append(styleOrigin, bidx + 1)
         /\ bidx' = bidx + 1
         /\ UNCHANGED <<pc, error, captions, origin, group_captions, start_time>>

\* the style branch of the loop of _parse
OnStyleBlock(block) ==
    IF captions # <<>>
    THEN /\ Fail(Err("MalformedFile", "Style block defined after the first cue",
                     block.line_number))
         /\ UNCHANGED <<bidx, captions, origin, styles, styleOrigin,
                        group_captions, start_time>>
    ELSE /\ styles' = Append(styles, [lines |-> Tail(block.lines)])
         /\ styleOrigin' = Append(styleOrigin, bidx + 1)
         /\ bidx' = bidx + 1
         /\ UNCHANGED <<pc, error, captions, origin, group_captions, start_time>>

\* MalformedBlockError with the block's own line number in both cases
MalformedBlockErrorAtBlockStart(block) ==
    IF Len(block.lines) = 1
    THEN Err("MalformedCaption", "Standalone cue identifier", block.line_number)
    ELSE Err("MalformedCaption", "Missing timing cue", block.line_number)

\* the error message and line of the last branch of the loop of _parse
MalformedBlockError(block) ==
    IF Len(block.lines) = 1
    THEN Err("MalformedCaption", "Standalone cue identifier", block.line_number)
    ELSE Err("MalformedCaption", "Missing timing cue", block.line_number + 1)

\* the last branch of the loop of _parse
OnMalformedBlock(block) ==
    /\ Fail(MalformedBlockError(block))
    /\ UNCHANGED <<bidx, captions, origin, styles, styleOrigin,
                   group_captions, start_time>>

\* the cue branch of the loop of WebVTTParser._parse
OnCueBlock(block) ==
    LET r == ParseCueBlock(parser, block) IN
    IF r.err # NoError
    THEN /\ Fail(r.err)
         /\ UNCHANGED <<bidx, captions, origin, styles, styleOrigin,
                        group_captions, start_time>>
    ELSE /\ captions' = Append(captions, r.caption)
         /\ origin' = Append(origin, bidx + 1)
         /\ bidx' = bidx + 1
         /\ UNCHANGED <<pc, error, styles, styleOrigin, group_captions, start_time>>

\* GroupStart that forgets the remembered start_time
GroupStartOfThisCue(caption) == caption.start

\* the start_time a cue leaves: that of the cue when the accumulator is empty
GroupStart(caption) == IF group_captions = "" THEN caption.start ELSE start_time

\* OnCueBlockCDP that keeps the accumulated text after it appends a caption
OnCueBlockCDPKeepGroup(block) ==
    LET r == ParseCueBlock(parser, block) IN
    IF r.err # NoError
    THEN /\ Fail(r.err)
         /\ UNCHANGED <<bidx, captions, origin, styles, styleOrigin,
                        group_captions, start_time>>
    ELSE LET caption == r.caption
             st == GroupStart(caption)
             gc == group_captions \o " " \o Text(caption)
         IN  /\ start_time' = st
             /\ group_captions' = gc
             /\ IF caption.flagEndSentence
                THEN /\ captions' = Append(captions,
                                        [SetText(caption, gc) EXCEPT !.start = st])
                     /\ origin' = Append(origin, bidx + 1)
                ELSE UNCHANGED <<captions, origin>>
             /\ bidx' = bidx + 1
             /\ UNCHANGED <<pc, error, styles, styleOrigin>>

\* the cue branch of the loop of WebVTTParserCDP._parse
OnCueBlockCDP(block) ==
    LET r == ParseCueBlock(parser, block) IN
    IF r.err # NoError
    THEN /\ Fail(r.err)
         /\ UNCHANGED <<bidx, captions, origin, styles, styleOrigin,
                        group_captions, start_time>>
    ELSE LET caption == r.caption
             st == GroupStart(caption)
             gc == group_captions \o " " \o Text(caption)
         IN  /\ start_time' = st
             /\ IF caption.flagEndSentence
                THEN /\ captions' = Append(captions,
                                        [SetText(caption, gc) EXCEPT !.start = st])
                     /\ origin' = Append(origin, bidx + 1)
                     /\ group_captions' = ""
                ELSE /\ group_captions' = gc
                     /\ UNCHANGED <<captions, origin>>
             /\ bidx' = bidx + 1
             /\ UNCHANGED <<pc, error, styles, styleOrigin>>

\* one iteration of the for loop of WebVTTParser._parse
BlockStep ==
    /\ pc = "loop"
    /\ parser = "vtt"
    /\ bidx < Len(blocks)
    /\ LET block == blocks[bidx + 1] IN
         IF IsCueBlock(block) THEN OnCueBlock(block)
         ELSE IF IsCommentBlock(block) THEN OnCommentBlock
         ELSE IF IsStyleBlock(block) THEN OnStyleBlock(block)
         ELSE OnMalformedBlock(block)
    /\ UNCHANGED <<parser, lines, idx, c, cAt, blocks, fresh>>

\* one iteration of the for loop of WebVTTParserCDP._parse
BlockStepCDP ==
    /\ pc = "loop"
    /\ parser = "cdp"
    /\ bidx < Len(blocks)
    /\ LET block == blocks[bidx + 1] IN
         IF IsCueBlock(block) THEN OnCueBlockCDP(block)
         ELSE IF IsCommentBlock(block) THEN OnCommentBlock
         ELSE IF IsStyleBlock(block) THEN OnStyleBlock(block)
         ELSE OnMalformedBlock(block)
    /\ UNCHANGED <<parser, lines, idx, c, cAt, blocks, fresh>>

\* FinishBlocks that flushes an unfinished group as a last caption
FinishBlocksFlush ==
    /\ pc = "loop"
    /\ parser \in {"vtt", "cdp"}
    /\ bidx = Len(blocks)
    /\ pc' = "done"
    /\ IF parser = "cdp" /\ group_captions # ""
       THEN /\ captions' = Append(captions,
                              SetText(Caption(start_time, None), group_captions))
            /\ origin' = Append(origin, bidx)
       ELSE UNCHANGED <<captions, origin>>
    /\ UNCHANGED <<parser, lines, idx, c, cAt, styles, styleOrigin,
                   blocks, bidx, group_captions, start_time, error, fresh>>

\* the loop of _parse is exhausted: _parse returns
FinishBlocks ==
    /\ pc = "loop"
    /\ parser \in {"vtt", "cdp"}
    /\ bidx = Len(blocks)
    /\ pc' = "done"
    /\ UNCHANGED <<parser, lines, idx, c, cAt, captions, origin, styles, styleOrigin,
                   blocks, bidx, group_captions, start_time, error, fresh>>

-----------------------------------------------------------------------------
(* Specifications *)

\* the state of an instance after __init__
Constructed ==
    /\ pc = "idle"
    /\ lines = <<>>
    /\ idx = 0
    /\ c = <<>>
    /\ captions = <<>>
    /\ styles = <<>>
    /\ blocks = <<>>
    /\ bidx = 0
    /\ group_captions = ""
    /\ start_time = "00:00:00.000"
    /\ error = NoError
    /\ cAt = 0
    /\ origin = <<>>
    /\ styleOrigin = <<>>
    /\ fresh = TRUE

InitText == parser \in {"srt", "sbv"} /\ Constructed

InitBlock == parser \in {"vtt", "cdp"} /\ Constructed

Init == parser \in {"srt", "sbv", "vtt", "cdp"} /\ Constructed

NextText == ReadText \/ LineStep \/ FinishText

NextBlock == ReadBlocks \/ BlockStep \/ BlockStepCDP \/ FinishBlocks

Next == NextText \/ NextBlock

SpecText == InitText /\ [][NextText]_vars

SpecBlock == InitBlock /\ [][NextBlock]_vars

Spec == Init /\ [][Next]_vars

-----------------------------------------------------------------------------
(* Properties of the generic line-classifying parser (SRT, SBV) *)

IsTextParser == parser \in {"srt", "sbv"}

\* the first position after timing line k that holds a blank line or a timing
\* line, Len(lines) + 1 if there is none
RunEnd(k) ==
    IF \E e \in (k + 1)..Len(lines) : lines[e] = "" \/ IsTimeframeLine(parser, lines[e])
    THEN CHOOSE e \in (k + 1)..Len(lines) :
            /\ lines[e] = "" \/ IsTimeframeLine(parser, lines[e])
            /\ \A d \in (k + 1)..(e - 1) :
                  lines[d] # "" /\ ~IsTimeframeLine(parser, lines[d])
    ELSE Len(lines) + 1

TimingLineNumbers == {k \in 1..Len(lines) : IsTimeframeLine(parser, lines[k])}

OriginSet == {origin[i] : i \in 1..Len(origin)}

\* C1: the captions of a text parser are in the order of their timing lines, each
\* has start and end taken from its timing line and at least one text line, the
\* text lines being the lines that follow the timing line.
C1_TextCaptionsInFileOrder ==
    IsTextParser =>
        /\ Len(origin) = Len(captions)
        /\ \A i \in 1..Len(captions) :
            /\ origin[i] \in TimingLineNumbers
            /\ captions[i].start = TimeStart(lines[origin[i]])
            /\ captions[i].end = TimeEnd(lines[origin[i]])
            /\ captions[i].start # None /\ captions[i].end # None
            /\ Len(captions[i].lines) >= 1
            /\ origin[i] + Len(captions[i].lines) <= Len(lines)
            /\ captions[i].lines =
                  SubSeq(lines, origin[i] + 1, origin[i] + Len(captions[i].lines))
        /\ \A i, j \in 1..Len(captions) : i < j => origin[i] < origin[j]

\* C1 witness: an SRT input parsed to the end with two captions of different timings
C1_Witness ==
    /\ parser = "srt" /\ pc = "done"
    /\ Len(captions) = 2
    /\ captions[1].start = "0:00:03,000"
    /\ captions[2].start = "0:00:01,000"

\* C3: after a parse that ends without error, every timing line that is followed
\* by at least one text line has a caption in the output.
C3_EveryTimingLineWithTextYieldsCaption ==
    (IsTextParser /\ pc = "done") =>
        \A k \in TimingLineNumbers : RunEnd(k) > k + 1 => k \in OriginSet

-----------------------------------------------------------------------------
(* Properties of the block parsers (WebVTTParser, WebVTTParserCDP) *)

IsBlockParser == parser \in {"vtt", "cdp"}

\* the current call failed inside the loop of _parse, at blocks[bidx + 1]
FailedInLoop ==
    /\ pc = "failed"
    /\ error.msg \notin {"The file is empty.", "The file does not have a valid format"}

\* a block that is neither a cue, a comment nor a style block
IsOtherBlock(block) ==
    ~IsCueBlock(block) /\ ~IsCommentBlock(block) /\ ~IsStyleBlock(block)

\* a block the loop handles in its style branch
IsStyleClassBlock(block) ==
    ~IsCueBlock(block) /\ ~IsCommentBlock(block) /\ IsStyleBlock(block)

MalformedBlockMessages == {"Standalone cue identifier", "Missing timing cue"}

\* C2: every caption WebVTTParser appends has at least one text line and both
\* start and end set.
C2_VTTCaptionsHaveText ==
    parser = "vtt" =>
        \A i \in 1..Len(captions) :
            /\ Len(captions[i].lines) >= 1
            /\ captions[i].start # None
            /\ captions[i].end # None

\* C4 as claimed: a block that is no cue, comment or style block raises
\* MalformedCaption at the block's starting line number, 'Missing timing cue' for
\* more than one line and 'Standalone cue identifier' for one line.
C4_MalformedBlockAtBlockStart ==
    (IsBlockParser /\ FailedInLoop /\ IsOtherBlock(blocks[bidx + 1])) =>
        /\ error.kind = "MalformedCaption"
        /\ error.line = blocks[bidx + 1].line_number
        /\ error.msg = IF Len(blocks[bidx + 1].lines) > 1
                       THEN "Missing timing cue"
                       ELSE "Standalone cue identifier"

\* C4 as amended: such a block raises MalformedCaption; 'Standalone cue identifier'
\* with the block's starting line number when it has one line, 'Missing timing
\* cue' with the starting line number plus one when it has more; the starting line
\* number is the 1-based index of the block's first line; no such block is passed
\* over, and no other block gets these messages.
C4_MalformedBlockLine ==
    IsBlockParser =>
        /\ (FailedInLoop /\ IsOtherBlock(blocks[bidx + 1])) =>
              LET block == blocks[bidx + 1] IN
              /\ error.kind = "MalformedCaption"
              /\ lines[block.line_number] = block.lines[1]
              /\ block.line_number = 1 \/ lines[block.line_number - 1] = ""
              /\ error.msg = IF Len(block.lines) > 1
                             THEN "Missing timing cue"
                             ELSE "Standalone cue identifier"
              /\ error.line = IF Len(block.lines) > 1
                              THEN block.line_number + 1
                              ELSE block.line_number
        /\ (FailedInLoop /\ error.msg \in MalformedBlockMessages) =>
              IsOtherBlock(blocks[bidx + 1])
        /\ pc \in {"loop", "done"} =>
              \A j \in 1..bidx : ~IsOtherBlock(blocks[j])

\* C4 witness: the sentence-grouping parser has failed on a block of three lines
\* whose timing marker is on the third line
C4_Witness ==
    /\ parser = "cdp" /\ FailedInLoop
    /\ error.msg = "Missing timing cue"
    /\ Len(blocks[bidx + 1].lines) = 3
    /\ bidx >= 1

\* C5: a style block met once a caption has been appended in the current parse
\* fails with MalformedFile, however many captions there are; so every style
\* record of the current parse comes from a block before every block that
\* appended a caption, and every style block passed has its record.
C5_StyleOnlyBeforeCaptions ==
    IsBlockParser =>
        /\ Len(styleOrigin) = Len(styles)
        /\ \A i \in 1..Len(styles) : \A j \in 1..Len(captions) :
              styleOrigin[i] # 0 => styleOrigin[i] < origin[j]
        /\ (FailedInLoop /\ IsStyleClassBlock(blocks[bidx + 1])) =>
              /\ captions # <<>>
              /\ error = Err("MalformedFile", "Style block defined after the first cue",
                             blocks[bidx + 1].line_number)
        /\ pc \in {"loop", "done"} =>
              \A j \in 1..bidx : IsStyleClassBlock(blocks[j]) =>
                  /\ \A k \in 1..Len(captions) : origin[k] > j
                  /\ \E i \in 1..Len(styles) :
                        /\ styleOrigin[i] = j
                        /\ styles[i].lines = Tail(blocks[j].lines)

\* C5 witness: a style block is refused after two captions
C5_Witness ==
    /\ IsBlockParser /\ FailedInLoop
    /\ error.msg = "Style block defined after the first cue"
    /\ Len(captions) = 2

-----------------------------------------------------------------------------
(* Properties of the sentence-grouping parser (WebVTTParserCDP) *)

\* the timing line of a cue block: the first of its lines with the marker
TimingLineOf(block) ==
    block.lines[CHOOSE k \in 1..Len(block.lines) :
                    /\ IsCueTimingsLine(block.lines[k])
                    /\ \A d \in 1..(k - 1) : ~IsCueTimingsLine(block.lines[d])]

\* the text lines of a cue block: its lines after the first that have no marker
TextLinesOf(block) ==
    SelectSeq(Tail(block.lines), LAMBDA l : ~IsCueTimingsLine(l))

\* a cue block one of whose text lines holds a sentence terminator
IsSentenceEnd(block) ==
    /\ IsCueBlock(block)
    /\ \E k \in 1..Len(TextLinesOf(block)) : GroupBySentence(TextLinesOf(block)[k])

\* the position of the last sentence-ending cue block before position j, or 0
PrevEnd(j) ==
    LET E == {k \in 1..(j - 1) : IsSentenceEnd(blocks[k])}
    IN  IF E = {} THEN 0 ELSE CHOOSE k \in E : \A d \in E : d <= k

\* the position of the first cue block of the group that block j closes
GroupFirst(j) ==
    CHOOSE k \in (PrevEnd(j) + 1)..j :
        /\ IsCueBlock(blocks[k])
        /\ \A d \in (PrevEnd(j) + 1)..(k - 1) : ~IsCueBlock(blocks[d])

\* the texts of the cue blocks at positions a..b, each after one space
RECURSIVE GroupText(_, _)
GroupText(a, b) ==
    IF a > b THEN ""
    ELSE (IF IsCueBlock(blocks[a])
          THEN " " \o JoinLines(TextLinesOf(blocks[a]))
          ELSE "") \o GroupText(a + 1, b)

\* C6: every caption of the sentence-grouping parser is appended at a
\* sentence-ending cue block, starts at the start of the first cue block of its
\* group and ends at the end of the cue block that closed the group.
C6_GroupStartAndEnd ==
    parser = "cdp" =>
        /\ Len(origin) = Len(captions)
        /\ \A i \in 1..Len(captions) :
              LET j == origin[i] IN
              /\ j \in 1..Len(blocks)
              /\ IsSentenceEnd(blocks[j])
              /\ captions[i].start = TimeStart(TimingLineOf(blocks[GroupFirst(j)]))
              /\ captions[i].end = TimeEnd(TimingLineOf(blocks[j]))
              /\ captions[i].start # None /\ captions[i].end # None

\* C6 witness: the second group opens with a cue without text and is closed by
\* a later cue, whose end it takes
C6_Witness ==
    /\ parser = "cdp" /\ pc = "done"
    /\ Len(captions) = 2
    /\ GroupFirst(origin[2]) < origin[2]
    /\ TextLinesOf(blocks[GroupFirst(origin[2])]) = <<>>
    /\ captions[2].start = "00:01.000"
    /\ captions[2].end = "00:04.000"

\* C7: at the end of a parse, without error, the captions are those of the
\* sentence-ending cue blocks, each with the text of its own group only: the cue
\* blocks after the last sentence-ending one are in no caption.
C7_TrailingGroupDropped ==
    (parser = "cdp" /\ pc = "done") =>
        /\ error = NoError
        /\ OriginSet = {j \in 1..Len(blocks) : IsSentenceEnd(blocks[j])}
        /\ \A i, j \in 1..Len(captions) : i < j => origin[i] < origin[j]
        /\ \A i \in 1..Len(captions) :
              captions[i].lines = <<GroupText(PrevEnd(origin[i]) + 1, origin[i])>>

\* C7 witness: the parse ended with a caption and, after it, a cue with text
\* that closed no sentence
C7_Witness ==
    /\ parser = "cdp" /\ pc = "done"
    /\ Len(captions) = 1
    /\ origin[1] < Len(blocks)
    /\ IsCueBlock(blocks[Len(blocks)])
    /\ TextLinesOf(blocks[Len(blocks)]) # <<>>
    /\ group_captions = " Hi"

-----------------------------------------------------------------------------
(* Reuse of a block parser instance *)

\* the blocks the loop handles in its style branch, in order
StyleBlocksOf(bs) == SelectSeq(bs, IsStyleClassBlock)

\* C9: after a successful parse the instance holds what the last input yields:
\* the blocks of that input, one style record per style block of that input,
\* and captions appended by blocks of that input.
C9_ReparseOverwrites ==
    (IsBlockParser /\ pc = "done") =>
        /\ blocks = ComputeBlocks(lines)
        /\ Len(styles) = Len(StyleBlocksOf(blocks))
        /\ \A i \in 1..Len(styles) :
              styles[i].lines = Tail(StyleBlocksOf(blocks)[i].lines)
        /\ \A i \in 1..Len(captions) : origin[i] \in 1..Len(blocks)

-----------------------------------------------------------------------------
(* Empty captions and inputs without cues *)

\* the timing lines whose caption the text parser appends: at least one text line
\* follows, and a blank line or the end of the input closes it
ClosedTimingLines ==
    {k \in TimingLineNumbers :
        /\ RunEnd(k) > k + 1
        /\ RunEnd(k) = Len(lines) + 1 \/ lines[RunEnd(k)] = ""}

\* C8: 'Caption missing text' is raised only by the grammar without the
\* ignore_empty_captions option (SBV), at a blank line that follows a timing line
\* directly, with that blank line's 1-based index; with the option (SRT) such a
\* blank line is passed without error and without a caption for that timing
\* line, and the captions of the other timing lines are appended as usual.
C8_EmptyCaptionOnBlankLine ==
    IsTextParser =>
        /\ error.msg = "Caption missing text" =>
              /\ parser = "sbv"
              /\ pc = "failed"
              /\ error.kind = "MalformedCaption"
              /\ error.line = idx + 1
              /\ lines[error.line] = ""
              /\ c # <<>> /\ c[1].lines = <<>>
              /\ cAt = error.line - 1
        /\ pc \in {"loop", "done"} =>
              \A k \in 2..idx :
                  (lines[k] = "" /\ IsTimeframeLine(parser, lines[k - 1])) =>
                      /\ parser = "srt"
                      /\ (k - 1) \notin OriginSet
        /\ pc = "done" => OriginSet = ClosedTimingLines

\* C8 witness: an SRT parse ended without error although a blank line followed a
\* timing line directly, and a later timing line has its caption
C8_Witness ==
    /\ parser = "srt" /\ pc = "done" /\ error = NoError
    /\ \E k \in 2..Len(lines) :
          /\ lines[k] = "" /\ IsTimeframeLine(parser, lines[k - 1])
          /\ \E i \in 1..Len(captions) : origin[i] > k

\* a cue block with a single, valid timing line and no text line
IsTimingOnlyBlock(block) ==
    /\ IsCueBlock(block)
    /\ TextLinesOf(block) = <<>>
    /\ \A k \in 1..Len(block.lines) :
          IsCueTimingsLine(block.lines[k]) => block.lines[k] = TimingLineOf(block)
    /\ Cardinality({k \in 1..Len(block.lines) : IsCueTimingsLine(block.lines[k])}) = 1
    /\ ValidateTimeframeLine(parser, TimingLineOf(block))

\* an input that passes validation and holds no complete cue: for a text parser,
\* only blank lines, valid timing lines and (SRT) index lines, no timing line
\* being followed by text; for a block parser, after the header only comment
\* blocks and cue blocks without text
ZeroCueInput ==
    /\ lines # <<>>
    /\ IF IsTextParser
       THEN /\ ValidateText(parser, lines)
            /\ \A k \in 1..Len(lines) :
                  \/ lines[k] = ""
                  \/ ValidateTimeframeLine(parser, lines[k])
                  \/ parser = "srt" /\ IsDigit(lines[k])
            /\ \A k \in TimingLineNumbers : RunEnd(k) = k + 1
       ELSE /\ ValidateBlocks(lines)
            /\ \A j \in 1..Len(ComputeBlocks(lines)) :
                  LET block == ComputeBlocks(lines)[j] IN
                  \/ ~IsCueBlock(block) /\ IsCommentBlock(block)
                  \/ IsTimingOnlyBlock(block)

\* the timing lines of an SBV input that a blank line follows directly
BlankAfterTiming ==
    {k \in TimingLineNumbers : k < Len(lines) /\ lines[k + 1] = ""}

-----------------------------------------------------------------------------
(* Blocks and their classification *)

\* the blocks of the current call are those of lines
InParse == pc \in {"loop", "done"} \/ FailedInLoop

StyleOriginSet == {styleOrigin[i] : i \in 1..Len(styleOrigin)} \ {0}

\* one of the first two lines of the block holds the marker '-->'
MarkerInFirstTwo(block) ==
    \/ HasArrow(block.lines[1])
    \/ Len(block.lines) >= 2 /\ HasArrow(block.lines[2])

\* C11: both block parsers decide on a style block as WebVTTParser does: it is
\* refused with MalformedFile when a cue block precedes it and gives a style
\* record otherwise, so both give the same style records and refuse the same
\* style blocks.
C11_StyleHandlingIdentical ==
    (IsBlockParser /\ InParse) =>
        /\ \A j \in 1..bidx : IsStyleClassBlock(blocks[j]) =>
              \A k \in 1..(j - 1) : ~MarkerInFirstTwo(blocks[k])
        /\ (FailedInLoop /\ IsStyleClassBlock(blocks[bidx + 1])) =>
              \E k \in 1..bidx : MarkerInFirstTwo(blocks[k])

\* the first lines of the maximal runs of non-blank lines of lines
RunStarts ==
    {k \in 1..Len(lines) : lines[k] # "" /\ (k = 1 \/ lines[k - 1] = "")}

\* lines n..m are a maximal run of non-blank lines
IsRun(n, m) ==
    /\ n \in RunStarts
    /\ n <= m /\ m <= Len(lines)
    /\ \A k \in n..m : lines[k] # ""
    /\ m = Len(lines) \/ lines[m + 1] = ""

\* C12: the blocks are the maximal runs of non-blank lines in file order
\* without the first run, each with its lines and the number of its first line.
C12_BlocksAreRunsButFirst ==
    (IsBlockParser /\ InParse) =>
        /\ Len(blocks) = IF RunStarts = {} THEN 0 ELSE Cardinality(RunStarts) - 1
        /\ \A j \in 1..Len(blocks) :
              LET n == blocks[j].line_number
                  m == n + Len(blocks[j].lines) - 1
              IN  /\ blocks[j].lines # <<>>
                  /\ IsRun(n, m)
                  /\ blocks[j].lines = SubSeq(lines, n, m)
                  /\ \E r \in RunStarts : r < n
                  /\ j > 1 => blocks[j - 1].line_number < n

\* C12 witness: two blank lines lie before the first block kept, one blank line
\* ends the input, and two blocks are kept
C12_Witness ==
    /\ IsBlockParser /\ InParse
    /\ Len(blocks) = 2
    /\ blocks[1].line_number = 4
    /\ lines[2] = "" /\ lines[3] = ""
    /\ lines[Len(lines)] = ""

\* C13: a block is handled as a cue block exactly when one of its first two lines
\* holds the marker, whatever its first line; else as a comment block, which
\* leaves captions and styles alone, when its first line matches the comment
\* pattern; else as a style block when its first line matches the style
\* pattern; else it is malformed.
C13_ClassificationPriority ==
    (IsBlockParser /\ InParse) =>
        /\ \A j \in 1..bidx :
              LET b == blocks[j] IN
              IF MarkerInFirstTwo(b)
              THEN /\ j \notin StyleOriginSet
                   /\ parser = "vtt" => j \in OriginSet
                   /\ parser = "cdp" => (j \in OriginSet <=> IsSentenceEnd(b))
              ELSE IF MatchComment(b.lines[1])
              THEN j \notin StyleOriginSet /\ j \notin OriginSet
              ELSE /\ MatchStyle(b.lines[1])
                   /\ j \in StyleOriginSet
                   /\ j \notin OriginSet
        /\ FailedInLoop =>
              LET b == blocks[bidx + 1] IN
              IF MarkerInFirstTwo(b)
              THEN error.msg \in {"Invalid time format", "--> found"}
              ELSE IF MatchComment(b.lines[1]) THEN FALSE
              ELSE IF MatchStyle(b.lines[1])
              THEN error.msg = "Style block defined after the first cue"
              ELSE error.msg \in MalformedBlockMessages

\* C13 witness: WebVTTParser has made captions of a block that begins with NOTE
\* and of one that begins with STYLE, and no style record
C13_Witness ==
    /\ parser = "vtt" /\ pc = "done"
    /\ \E i, j \in 1..Len(captions) :
          /\ captions[i].identifier = "NOTE"
          /\ captions[j].identifier = "STYLE"
    /\ styles = <<>>

-----------------------------------------------------------------------------
(* Cue blocks *)

\* the positions in the block of the lines that hold the marker '-->'
MarkerLines(block) == {k \in 1..Len(block.lines) : HasArrow(block.lines[k])}

\* the least member of a non-empty set of numbers
Least(S) == CHOOSE k \in S : \A d \in S : k <= d

\* a block with one marker line, which is among its first two lines and is valid
HasOneValidMarker(p, block) ==
    /\ MarkerInFirstTwo(block)
    /\ Cardinality(MarkerLines(block)) = 1
    /\ ValidateTimeframeLine(p, block.lines[Least(MarkerLines(block))])

\* C14: WebVTTParser makes of every cue block with one, valid, marker line a
\* caption whose identifier is the first line when that is not the timing line
\* (none otherwise), whose start and end are the two timestamps of the timing
\* line, and whose text lines are all the other lines in their order.
C14_CueBlockExtraction ==
    (parser = "vtt" /\ InParse) =>
        /\ \A j \in 1..bidx : HasOneValidMarker("vtt", blocks[j]) =>
              \E i \in 1..Len(captions) :
                 /\ origin[i] = j
                 /\ LET b == blocks[j]
                        t == Least(MarkerLines(b))
                        cap == captions[i]
                    IN  /\ cap.identifier = IF t = 1 THEN None ELSE b.lines[1]
                        /\ cap.start = TimeStart(b.lines[t])
                        /\ cap.end = TimeEnd(b.lines[t])
                        /\ cap.lines = SubSeq(b.lines, t + 1, Len(b.lines))
                        /\ Len(cap.lines) =
                              Len(b.lines) - 1 - (IF t = 1 THEN 0 ELSE 1)
        /\ FailedInLoop => ~HasOneValidMarker("vtt", blocks[bidx + 1])

\* C14 witness: one caption has an identifier and one text line, another has no
\* identifier and two text lines in the order of its block
C14_Witness ==
    /\ parser = "vtt" /\ pc = "done"
    /\ \E i, j \in 1..Len(captions) :
          /\ captions[i].identifier = "Id?" /\ captions[i].lines = <<"Hi">>
          /\ captions[j].identifier = None /\ captions[j].lines = <<"Bye.", "Hi">>
          /\ captions[j].start = TimeStart(VTT_B)

\* C15: a second marker line in a cue block whose first marker line is valid
\* fails with MalformedCaption at the source line of that second marker line
\* (the block's line number plus the line's offset in the block), the block
\* gives no caption, and no block with a second marker line is passed.
C15_SecondMarkerLine ==
    (IsBlockParser /\ InParse) =>
        /\ \A j \in 1..bidx : MarkerInFirstTwo(blocks[j]) =>
              Cardinality(MarkerLines(blocks[j])) = 1
        /\ FailedInLoop =>
              LET b == blocks[bidx + 1]
                  first == Least(MarkerLines(b))
                  second == Least(MarkerLines(b) \ {first})
              IN  IF /\ MarkerInFirstTwo(b)
                     /\ Cardinality(MarkerLines(b)) >= 2
                     /\ ValidateTimeframeLine(parser, b.lines[first])
                  THEN /\ error.kind = "MalformedCaption"
                       /\ error.msg = "--> found"
                       /\ error.line = b.line_number + (second - 1)
                       /\ HasArrow(lines[error.line])
                       /\ (bidx + 1) \notin OriginSet
                  ELSE error.msg # "--> found"
        /\ ~FailedInLoop => error.msg # "--> found"

\* C15 witness: the second marker line is the third line of its block, and a
\* caption was made before the failure
C15_Witness ==
    /\ IsBlockParser /\ FailedInLoop
    /\ error.msg = "--> found"
    /\ error.line = blocks[bidx + 1].line_number + 2
    /\ captions # <<>>

-----------------------------------------------------------------------------
(* Text lines, digit-only lines and the end of the input in the text parsers *)

\* the positions before k that hold a timing line or a blank line
Marks(k) ==
    {t \in 1..(k - 1) : lines[t] = "" \/ IsTimeframeLine(parser, lines[t])}

\* the last of them
LastMark(k) == CHOOSE t \in Marks(k) : \A d \in Marks(k) : d <= t

\* a caption is open when line k arrives: the last timing or blank line before
\* it is a timing line
OpenAt(k) == Marks(k) # {} /\ lines[LastMark(k)] # ""

\* line k is non-empty, not a timing line and not skippable, and arrives while
\* no caption is open
UnopenedText(k) ==
    /\ lines[k] # ""
    /\ ~IsTimeframeLine(parser, lines[k])
    /\ ~(parser = "srt" /\ IsDigit(lines[k]))
    /\ ~OpenAt(k)

\* the text parser has passed _validate for lines
InTextParse == pc \in {"loop", "done"} \/ FailedInLoop

\* C16: a non-empty line that is neither a timing line nor skippable and arrives
\* while no caption is open fails with MalformedCaption 'Caption missing
\* timeframe' at that line's 1-based index; the scan stops there, and captions
\* holds exactly the captions closed before that line.
C16_MissingTimeframe ==
    (IsTextParser /\ InTextParse) =>
        /\ \A k \in 1..idx : ~UnopenedText(k)
        /\ (FailedInLoop /\ UnopenedText(idx + 1)) =>
              /\ error = Err("MalformedCaption", "Caption missing timeframe", idx + 1)
              /\ c = <<>>
              /\ OriginSet = {t \in ClosedTimingLines : RunEnd(t) <= idx}
        /\ error.msg = "Caption missing timeframe" =>
              FailedInLoop /\ UnopenedText(idx + 1)

\* C16 witness: the failure comes after a caption was closed and appended
C16_Witness ==
    /\ IsTextParser /\ pc = "failed"
    /\ error.msg = "Caption missing timeframe"
    /\ error.line = idx + 1
    /\ Len(captions) >= 1

\* C18: in the SRT parser a digit-only line met while no caption is open is
\* passed without error and enters no caption; met while a caption is open it is
\* appended to that caption's text lines; no digit-only line raises an error.
C18_DigitLineSkippedIffNoCaption ==
    (parser = "srt" /\ InTextParse) =>
        /\ \A k \in 1..idx : IsDigit(lines[k]) =>
              IF OpenAt(k)
              THEN LET t == LastMark(k) IN
                   /\ cAt = t =>
                         /\ Len(c[1].lines) >= k - t
                         /\ c[1].lines[k - t] = lines[k]
                   /\ \A i \in 1..Len(captions) : origin[i] = t =>
                         /\ Len(captions[i].lines) >= k - t
                         /\ captions[i].lines[k - t] = lines[k]
                   /\ (pc = "loop" /\ RunEnd(t) > idx) => cAt = t
                   /\ (RunEnd(t) <= idx /\ lines[RunEnd(t)] = "") => t \in OriginSet
                   /\ (pc = "done" /\ RunEnd(t) = Len(lines) + 1) => t \in OriginSet
              ELSE \A i \in 1..Len(captions) :
                      ~(origin[i] < k /\ k <= origin[i] + Len(captions[i].lines))
        /\ FailedInLoop => ~IsDigit(lines[idx + 1])

\* C18 witness: a parse ended with a digit-only line skipped after the first
\* caption and another digit-only line among the text lines of a caption
C18_Witness ==
    /\ parser = "srt" /\ pc = "done"
    /\ \E k \in 3..Len(lines) : IsDigit(lines[k]) /\ ~OpenAt(k)
    /\ \E i \in 1..Len(captions) :
          \E n \in 1..Len(captions[i].lines) : IsDigit(captions[i].lines[n])

\* C19: the end of the input raises nothing in either text grammar: a caption
\* still open there without text lines is dropped, one with text lines is
\* appended, and 'Caption missing text' is reported only for a blank line of
\* the input.
C19_NoErrorAtEndOfInput ==
    /\ [](IsTextParser =>
            /\ error.msg = "Caption missing text" =>
                  /\ error.line \in 1..Len(lines)
                  /\ lines[error.line] = ""
            /\ (pc = "done" /\ lines # <<>>
                  /\ IsTimeframeLine(parser, lines[Len(lines)])) =>
                  /\ error = NoError
                  /\ Len(lines) \notin OriginSet)
    /\ [][(IsTextParser /\ pc = "loop" /\ idx = Len(lines)) =>
            /\ pc' = "done"
            /\ error' = NoError
            /\ captions' = IF c # <<>> /\ c[1].lines # <<>>
                           THEN Append(captions, c[1])
                           ELSE captions]_vars

\* C19 witness: an SBV parse ended without error on an input whose last line is
\* a timing line, with the caption before it appended
C19_Witness ==
    /\ parser = "sbv" /\ pc = "done" /\ error = NoError
    /\ IsTimeframeLine(parser, lines[Len(lines)])
    /\ Len(captions) = 1

-----------------------------------------------------------------------------
(* Sentence groups, and the lines before the first blank line *)

\* the sentence-ending cue blocks among the blocks handled so far
EndsSoFar == {j \in 1..bidx : IsSentenceEnd(blocks[j])}

\* C17: the sentence-grouping parser has one caption per sentence-ending cue
\* block handled; the text of each is the texts, each after one space and in file
\* order, of the cue blocks after the previous sentence-ending cue block up to
\* its own; the accumulator holds the texts of the cue blocks after the last
\* sentence-ending one, so it is empty after each caption; comment blocks do
\* not split a group and a terminator in an identifier line ends none.
C17_SentenceGroups ==
    (parser = "cdp" /\ pc \in {"loop", "done"}) =>
        /\ Len(captions) = Cardinality(EndsSoFar)
        /\ \A i \in 1..Len(captions) :
              /\ origin[i] \in EndsSoFar
              /\ Text(captions[i]) = GroupText(PrevEnd(origin[i]) + 1, origin[i])
        /\ group_captions = GroupText(PrevEnd(bidx + 1) + 1, bidx)
        /\ bidx \in EndsSoFar => group_captions = ""
        /\ \A j \in 1..bidx :
              (/\ MarkerInFirstTwo(blocks[j])
               /\ \A k \in 2..Len(blocks[j].lines) :
                     HasArrow(blocks[j].lines[k]) \/ ~GroupBySentence(blocks[j].lines[k]))
              => j \notin OriginSet

\* C17 witness: a caption's group holds a cue block, then a comment block, then
\* the sentence-ending cue block, and its text is the two cue texts
C17_Witness ==
    /\ parser = "cdp" /\ pc = "done"
    /\ Len(captions) = 1
    /\ origin[1] = 3
    /\ MarkerInFirstTwo(blocks[1])
    /\ ~MarkerInFirstTwo(blocks[2]) /\ MatchComment(blocks[2].lines[1])
    /\ captions[1].lines = <<" Hi Bye. Hi">>

\* the first blank line of lines, Len(lines) + 1 if there is none
FirstBlank ==
    IF \E k \in 1..Len(lines) : lines[k] = ""
    THEN Least({k \in 1..Len(lines) : lines[k] = ""})
    ELSE Len(lines) + 1

\* C20: after validation, the lines up to the first blank line are in no block,
\* so no caption, style or error comes from them: every block, and every error
\* of the loop, lies after the first blank line, and an input without a blank
\* line ends without error, without captions and without new styles.
C20_HeaderLinesDiscarded ==
    (IsBlockParser /\ InParse) =>
        /\ \A j \in 1..Len(blocks) : blocks[j].line_number > FirstBlank
        /\ \A i \in 1..Len(captions) : blocks[origin[i]].line_number > FirstBlank
        /\ \A j \in StyleOriginSet : blocks[j].line_number > FirstBlank
        /\ FailedInLoop => (error.line > FirstBlank /\ error.line <= Len(lines))
        /\ FirstBlank = Len(lines) + 1 =>
              /\ blocks = <<>>
              /\ captions = <<>>
              /\ StyleOriginSet = {}
              /\ error = NoError

\* C20 witness: a timing line and a text line follow the signature line
\* directly; the parse ended with the caption of the later cue block alone
C20_Witness ==
    /\ IsBlockParser /\ pc = "done" /\ error = NoError
    /\ Len(lines) > 3
    /\ HasArrow(lines[2]) /\ lines[3] = "Bye."
    /\ Len(captions) = 1
    /\ captions[1].start = TimeStart(VTT_B)

=============================================================================
